---- MODULE Spec2Model ----
(***************************************************************************)
(* Model of pkg-config-rs (src/src/lib.rs): Config, Config::find and the   *)
(* helpers target_supported, infer_static, envify and is_system_lib.       *)
(*                                                                         *)
(* Text (library names, environment values, process output, paths) is a    *)
(* sequence of units.  A unit is a one-byte ASCII character ("a", "-"),    *)
(* the two-byte character "U+00E9", or "0xFF", a byte that occurs in no    *)
(* UTF-8 encoding.  str::len and slice indices count bytes, chars() and    *)
(* the claims' "characters" count units.                                   *)
(***************************************************************************)
EXTENDS FiniteSets, Integers, Sequences, TLC

\* Bounds of the explored inputs.
MaxWords == 2
MaxEnvVars == 2

\* Width of the flag prefix, the 2 of `l.len() > 2`, `&arg[0..2]`, `&arg[2..]`.
FlagLen == 2

----------------------------------------------------------------------------
\* Option<T>
None == <<>>
Some(v) == <<v>>
is_some(o) == o # None
unwrap_or(o, d) == IF o = None THEN d ELSE o[1]

\* Bytes a character occupies in UTF-8.
len_utf8(c) == IF c = "U+00E9" THEN 2 ELSE 1

\* str::len: the length in bytes.
RECURSIVE len(_)
len(s) == IF s = <<>> THEN 0 ELSE len_utf8(Head(s)) + len(Tail(s))

\* str::from_utf8(..).is_ok()
from_utf8_ok(bytes) == \A i \in 1..Len(bytes) : bytes[i] # "0xFF"

\* str::split(sep) collected: the pieces between separators, empty ones kept.
RECURSIVE split(_, _)
split(s, sep) ==
    IF \A i \in 1..Len(s) : s[i] # sep
    THEN <<s>>
    ELSE LET i == CHOOSE k \in 1..Len(s) :
                     s[k] = sep /\ \A j \in 1..(k - 1) : s[j] # sep
         IN  <<SubSeq(s, 1, i - 1)>> \o split(SubSeq(s, i + 1, Len(s)), sep)

\* str::is_char_boundary(n) and the number of characters before byte n.
is_char_boundary(s, n) == \E k \in 0..Len(s) : len(SubSeq(s, 1, k)) = n
chars_before(s, n) == CHOOSE k \in 0..Len(s) : len(SubSeq(s, 1, k)) = n

\* &s[0..n] and &s[n..]; both panic unless n is a character boundary.
slice_to(s, n) == SubSeq(s, 1, chars_before(s, n))
slice_from(s, n) == SubSeq(s, chars_before(s, n) + 1, Len(s))

\* char::to_ascii_uppercase
Lower == <<"a", "b", "c", "d", "e", "f", "g", "h", "i", "j", "k", "l", "m", "n", "o", "p", "q", "r", "s", "t", "u", "v", "w", "x", "y", "z">>
Upper == <<"A", "B", "C", "D", "E", "F", "G", "H", "I", "J", "K", "L", "M", "N", "O", "P", "Q", "R", "S", "T", "U", "V", "W", "X", "Y", "Z">>
to_ascii_uppercase(c) ==
    IF \E i \in 1..Len(Lower) : Lower[i] = c
    THEN Upper[CHOOSE i \in 1..Len(Lower) : Lower[i] = c]
    ELSE c

\* envify: uppercase every character, then turn '-' into '_'.
envify(n) ==
    [i \in 1..Len(n) |->
        LET c == to_ascii_uppercase(n[i]) IN IF c = "-" THEN "_" ELSE c]

----------------------------------------------------------------------------
\* std::path: a path is compared by components; repeated separators, a
\* trailing separator and "." components do not count.
Components(p) ==
    [has_root |-> (p # <<>> /\ p[1] = "/"),
     names |-> SelectSeq(split(p, "/"), LAMBDA c : c # <<>> /\ c # <<".">>)]

\* starts_with comparing the text of the paths instead of their components.
starts_with_text(p, base) ==
    Len(base) <= Len(p) /\ SubSeq(p, 1, Len(base)) = base

\* Path::starts_with: base's components are a prefix of p's components.
starts_with(p, base) ==
    LET a == Components(p)
        b == Components(base)
    IN  /\ a.has_root = b.has_root
        /\ Len(b.names) <= Len(a.names)
        /\ SubSeq(a.names, 1, Len(b.names)) = b.names

\* Path::join with a relative second path.
join(d, f) ==
    IF d = <<>> \/ d[Len(d)] = "/" THEN d \o f ELSE d \o <<"/">> \o f

----------------------------------------------------------------------------
\* Names of the environment variables read.
HOST == <<"H", "O", "S", "T">>
TARGET == <<"T", "A", "R", "G", "E", "T">>
PKG_CONFIG_ALLOW_CROSS == <<"P", "K", "G", "_", "C", "O", "N", "F", "I", "G", "_", "A", "L", "L", "O", "W", "_", "C", "R", "O", "S", "S">>
PKG_CONFIG_ALL_STATIC == <<"P", "K", "G", "_", "C", "O", "N", "F", "I", "G", "_", "A", "L", "L", "_", "S", "T", "A", "T", "I", "C">>
PKG_CONFIG_ALL_DYNAMIC == <<"P", "K", "G", "_", "C", "O", "N", "F", "I", "G", "_", "A", "L", "L", "_", "D", "Y", "N", "A", "M", "I", "C">>
PKG_CONFIG_ALLOW_SYSTEM_LIBS == <<"P", "K", "G", "_", "C", "O", "N", "F", "I", "G", "_", "A", "L", "L", "O", "W", "_", "S", "Y", "S", "T", "E", "M", "_", "L", "I", "B", "S">>
NoPkgConfigVar(n) == envify(n) \o <<"_", "N", "O", "_", "P", "K", "G", "_", "C", "O", "N", "F", "I", "G">>
StaticVar(n) == envify(n) \o <<"_", "S", "T", "A", "T", "I", "C">>
DynamicVar(n) == envify(n) \o <<"_", "D", "Y", "N", "A", "M", "I", "C">>

\* Command line of the tool.
ArgStatic == <<"-", "-", "s", "t", "a", "t", "i", "c">>
ArgLibs == <<"-", "-", "l", "i", "b", "s">>
ArgCflags == <<"-", "-", "c", "f", "l", "a", "g", "s">>
Query(n, v) == n \o <<" ", ">", "=", " ">> \o v

\* Trusted system root of is_system_lib.
root == <<"/", "u", "s", "r">>
LibName(n) == <<"l", "i", "b">> \o n \o <<".", "a">>

StdoutHeader == <<"\n", "-", "-", "-", " ", "s", "t", "d", "o", "u", "t", "\n">>
StderrHeader == <<"\n", "-", "-", "-", " ", "s", "t", "d", "e", "r", "r", "\n">>

----------------------------------------------------------------------------
VARIABLES
    env,        \* process environment: variable name -> value
    fs,         \* paths fs::metadata succeeds on, as Components
    tool,       \* what running pkg-config does: spawn, status, stdout, stderr
    name,       \* the library asked for
    self,       \* the Config: statik, atleast_version
    pc,         \* position inside find
    statik,     \* find's local `statik`
    cmd,        \* find's local `cmd`
    spawned,    \* commands handed to the operating system so far
    out,        \* captured Output of the tool
    parts,      \* find's local `parts`
    dirs,       \* find's local `dirs`
    ret,        \* find's local `ret`, the Library under construction
    printed,    \* lines written by println!, in order
    result      \* what find returned

vars == <<env, fs, tool, name, self, pc, statik, cmd, spawned, out, parts,
          dirs, ret, printed, result>>

\* env::var_os and env::var
var_os(k) == IF k \in DOMAIN env THEN Some(env[k]) ELSE None
var(k) ==
    IF k \notin DOMAIN env THEN [ok |-> FALSE, err |-> "NotPresent", val |-> <<>>]
    ELSE IF from_utf8_ok(env[k]) THEN [ok |-> TRUE, err |-> "", val |-> env[k]]
    ELSE [ok |-> FALSE, err |-> "NotUnicode", val |-> env[k]]

\* fs::metadata(p).is_ok()
metadata_is_ok(p) == Components(p) \in fs

target_supported ==
    var(HOST) = var(TARGET) \/ is_some(var_os(PKG_CONFIG_ALLOW_CROSS))

\* infer_static consulting the dynamic variable of a pair before the static one.
infer_static_dynamic_first(n) ==
    IF is_some(var_os(DynamicVar(n))) THEN FALSE
    ELSE IF is_some(var_os(StaticVar(n))) THEN TRUE
    ELSE IF is_some(var_os(PKG_CONFIG_ALL_DYNAMIC)) THEN FALSE
    ELSE IF is_some(var_os(PKG_CONFIG_ALL_STATIC)) THEN TRUE
    ELSE FALSE

infer_static(n) ==
    IF is_some(var_os(StaticVar(n))) THEN TRUE
    ELSE IF is_some(var_os(DynamicVar(n))) THEN FALSE
    ELSE IF is_some(var_os(PKG_CONFIG_ALL_STATIC)) THEN TRUE
    ELSE IF is_some(var_os(PKG_CONFIG_ALL_DYNAMIC)) THEN FALSE
    ELSE FALSE

\* is_system_lib accepting an archive in any directory, /usr included.
is_system_lib_any_dir(n, ds) ==
    ~ \E i \in 1..Len(ds) : metadata_is_ok(join(ds[i], LibName(n)))

is_system_lib(n, ds) ==
    ~ \E i \in 1..Len(ds) :
          /\ ~ starts_with(ds[i], root)
          /\ metadata_is_ok(join(ds[i], LibName(n)))

----------------------------------------------------------------------------
\* Values of the locals before find assigns them.
NoCmd == [program |-> "", args |-> <<>>, envs |-> {}]
NoOutput == [status |-> 0, stdout |-> <<>>, stderr |-> <<>>]
EmptyLibrary ==
    [libs |-> <<>>, link_paths |-> <<>>, frameworks |-> <<>>,
     framework_paths |-> <<>>, include_paths |-> <<>>]
NoResult ==
    [kind |-> "none", err |-> "", lib |-> EmptyLibrary, name |-> <<>>,
     cmd |-> NoCmd, status |-> 0, cause |-> "", tail |-> <<>>]

Ok(l) == [NoResult EXCEPT !.kind = "Ok", !.lib = l]
ErrDisabled(n) == [NoResult EXCEPT !.kind = "Err", !.err = "disabled", !.name = n]
ErrCross == [NoResult EXCEPT !.kind = "Err", !.err = "cross"]
ErrSpawn(c, e) ==
    [NoResult EXCEPT !.kind = "Err", !.err = "spawn", !.cmd = c, !.cause = e]
ErrStatus(c, s, t) ==
    [NoResult EXCEPT !.kind = "Err", !.err = "status", !.cmd = c,
                     !.status = s, !.tail = t]

\* A line of println!: the format string and the value put in its {}.
Line(fmt, val) == [fmt |-> fmt, val |-> val]
SearchNative(v) == Line("cargo:rustc-link-search=native={}", v)
SearchFramework(v) == Line("cargo:rustc-link-search=framework={}", v)
LinkStatic(v) == Line("cargo:rustc-link-lib=static={}", v)
LinkDynamic(v) == Line("cargo:rustc-link-lib={}", v)
LinkFramework(v) == Line("cargo:rustc-link-lib=framework={}", v)

\* BuildCmd that leaves the minimum version out of the query.
BuildCmd_no_version(st, n, vers) ==
    [program |-> "pkg-config",
     args |-> (IF st THEN <<ArgStatic>> ELSE <<>>) \o <<ArgLibs, ArgCflags, n>>,
     envs |-> {<<PKG_CONFIG_ALLOW_SYSTEM_LIBS, <<"1">>>>}]

\* The command find builds.
BuildCmd(st, n, vers) ==
    [program |-> "pkg-config",
     args |-> (IF st THEN <<ArgStatic>> ELSE <<>>)
              \o <<ArgLibs, ArgCflags>>
              \o <<(IF vers = None THEN n ELSE Query(n, vers[1]))>>,
     envs |-> {<<PKG_CONFIG_ALLOW_SYSTEM_LIBS, <<"1">>>>}]

\* The message tail pushed after a failed run.
FailureTail(so, se) ==
    (IF len(so) > 0 THEN StdoutHeader \o so ELSE <<>>)
    \o (IF len(se) > 0 THEN StderrHeader \o se ELSE <<>>)

\* stdout.split(' ').filter(|l| l.len() > 2)
LongTokens(text) == SelectSeq(split(text, " "), LAMBDA l : len(l) > FlagLen)

\* The map closure panics on a token whose byte FlagLen is inside a character.
ParsePanics(text) ==
    \E i \in 1..Len(LongTokens(text)) :
        ~ is_char_boundary(LongTokens(text)[i], FlagLen)

\* .map(|arg| (&arg[0..2], &arg[2..])).collect()
ParseParts(text) ==
    [i \in 1..Len(LongTokens(text)) |->
        <<slice_to(LongTokens(text)[i], FlagLen),
          slice_from(LongTokens(text)[i], FlagLen)>>]

\* FlagStep whose -F branch records the directory as a native search path.
FlagStep_F_as_L(p, st) ==
    IF p[1] = <<"-", "L">> THEN
        [st EXCEPT !.printed = Append(@, SearchNative(p[2])),
                   !.dirs = Append(@, p[2]),
                   !.ret.link_paths = Append(@, p[2])]
    ELSE IF p[1] = <<"-", "F">> THEN
        [st EXCEPT !.printed = Append(@, SearchFramework(p[2])),
                   !.ret.link_paths = Append(@, p[2])]
    ELSE IF p[1] = <<"-", "I">> THEN
        [st EXCEPT !.ret.include_paths = Append(@, p[2])]
    ELSE st

\* One iteration of the first loop over parts.
FlagStep(p, st) ==
    IF p[1] = <<"-", "L">> THEN
        [st EXCEPT !.printed = Append(@, SearchNative(p[2])),
                   !.dirs = Append(@, p[2]),
                   !.ret.link_paths = Append(@, p[2])]
    ELSE IF p[1] = <<"-", "F">> THEN
        [st EXCEPT !.printed = Append(@, SearchFramework(p[2])),
                   !.ret.framework_paths = Append(@, p[2])]
    ELSE IF p[1] = <<"-", "I">> THEN
        [st EXCEPT !.ret.include_paths = Append(@, p[2])]
    ELSE st

\* One iteration of the second loop over parts.
LibStep(p, st) ==
    IF p[1] = <<"-", "l">> THEN
        [st EXCEPT !.ret.libs = Append(@, p[2]),
                   !.printed = Append(@,
                       IF statik /\ ~ is_system_lib(p[2], st.dirs)
                       THEN LinkStatic(p[2]) ELSE LinkDynamic(p[2]))]
    ELSE st

RECURSIVE FlagLoop(_, _)
FlagLoop(ps, st) ==
    IF ps = <<>> THEN st ELSE FlagLoop(Tail(ps), FlagStep(Head(ps), st))

RECURSIVE LibLoop(_, _)
LibLoop(ps, st) ==
    IF ps = <<>> THEN st ELSE LibLoop(Tail(ps), LibStep(Head(ps), st))

\* FrameworkTake that leaves the name in the iterator.
FrameworkTake_keep_name(iter) ==
    IF Head(iter) # <<"-", "f", "r", "a", "m", "e", "w", "o", "r", "k">> \/ Tail(iter) = <<>>
    THEN [rest |-> Tail(iter), lib |-> None]
    ELSE [rest |-> Tail(iter), lib |-> Some(iter[2])]

\* One turn of the while-let loop over stdout.split(' '): the rest of the
\* iterator and the framework named, if any.  A "-framework" takes the next
\* item of the same iterator as its name.
FrameworkTake(iter) ==
    IF Head(iter) # <<"-", "f", "r", "a", "m", "e", "w", "o", "r", "k">> THEN [rest |-> Tail(iter), lib |-> None]
    ELSE IF Tail(iter) = <<>> THEN [rest |-> <<>>, lib |-> None]
    ELSE [rest |-> Tail(Tail(iter)), lib |-> Some(iter[2])]

RECURSIVE FrameworkLoop(_, _)
FrameworkLoop(iter, st) ==
    IF iter = <<>> THEN st
    ELSE LET t == FrameworkTake(iter)
         IN  FrameworkLoop(t.rest,
                 IF t.lib = None THEN st
                 ELSE [st EXCEPT !.printed = Append(@, LinkFramework(t.lib[1])),
                                 !.ret.frameworks = Append(@, t.lib[1])])

Locals == [printed |-> printed, dirs |-> dirs, ret |-> ret]

----------------------------------------------------------------------------
\* Inputs explored.
foo == <<"f", "o", "o">>
Names == {foo, <<"a", "-", "b">>}
Versions == {<<"1", ".", "0">>}
Platforms == {<<"x", "8", "6">>, <<"a", "r", "m">>}

FlagVars ==
    {<<"F", "O", "O", "_", "N", "O", "_", "P", "K", "G", "_", "C", "O", "N", "F", "I", "G">>, <<"F", "O", "O", "_", "S", "T", "A", "T", "I", "C">>, <<"F", "O", "O", "_", "D", "Y", "N", "A", "M", "I", "C">>,
     <<"A", "_", "B", "_", "N", "O", "_", "P", "K", "G", "_", "C", "O", "N", "F", "I", "G">>, <<"A", "_", "B", "_", "S", "T", "A", "T", "I", "C">>,
     PKG_CONFIG_ALL_STATIC, PKG_CONFIG_ALL_DYNAMIC, PKG_CONFIG_ALLOW_CROSS}

\* The environment with the flag variables F set to "1" and HOST, TARGET
\* set to h, t when these are Some.
MakeEnv(F, h, t) ==
    [k \in F \cup (IF h = None THEN {} ELSE {HOST})
             \cup (IF t = None THEN {} ELSE {TARGET}) |->
        IF k = HOST THEN h[1] ELSE IF k = TARGET THEN t[1] ELSE <<"1">>]

NativeEnv == MakeEnv({}, Some(<<"x", "8", "6">>), Some(<<"x", "8", "6">>))

PolicyEnvs ==
    {MakeEnv(F, h, t) :
        F \in {S \in SUBSET FlagVars : Cardinality(S) <= MaxEnvVars},
        h \in {None, Some(<<"x", "8", "6">>)},
        t \in {None} \cup {Some(p) : p \in Platforms}}

Run(sp, st, so, se) == [spawn |-> sp, status |-> st, stdout |-> so, stderr |-> se]

PolicyTools ==
    {Run("NotFound", 0, <<>>, <<>>),
     Run("ok", 0, <<"-", "L", "/", "o", " ", "-", "l", "z">>, <<>>),
     Run("ok", 1, <<>>, <<"n", "o", " ", "f", "o", "o">>),
     Run("ok", 1, <<"-", "l", "z">>, <<>>),
     Run("ok", 1, <<"-", "L", "/", "o", " ", "-", "l", "z">>, <<"w", "a", "r", "n">>),
     Run("ok", 1, <<>>, <<"0xFF">>)}

\* Words of the generated outputs.
Words ==
    {<<"-", "L", "/", "o">>, <<"-", "L", "/", "u", "s", "r", "/", "l">>, <<"-", "L", "/", "u", "s", "r", "x">>, <<"-", "l", "z">>, <<"-", "I", "/", "i">>, <<"-", "F", "/", "f">>,
     <<"-", "f", "r", "a", "m", "e", "w", "o", "r", "k">>, <<"F", "o", "o">>, <<>>, <<"-", "W", "x">>}

RECURSIVE JoinWords(_)
JoinWords(ws) ==
    IF ws = <<>> THEN <<>>
    ELSE IF Len(ws) = 1 THEN ws[1]
    ELSE ws[1] \o <<" ">> \o JoinWords(Tail(ws))

GeneratedOutputs ==
    {JoinWords(ws) : ws \in UNION {[1..n -> Words] : n \in 0..MaxWords}}

\* Outputs written out in full.
ScenarioOutputs ==
    {<<"-", "L", "/", "u", "s", "r", "/", "l", "i", "b", " ", "-", "l", "f", "o", "o", " ", "-", "I", "/", "u", "s", "r", "/", "i", "n", "c", "l", "u", "d", "e">>,
     <<"-", "l", " ", "-", "L", "/", "x">>,
     <<"-", "f", "r", "a", "m", "e", "w", "o", "r", "k", " ", "F", "o", "o", " ", "-", "f", "r", "a", "m", "e", "w", "o", "r", "k", " ", "B", "a", "r">>,
     <<"-", "f", "r", "a", "m", "e", "w", "o", "r", "k", " ", "-", "f", "r", "a", "m", "e", "w", "o", "r", "k", " ", "F", "o", "o">>,
     <<"-", "l", "z", " ", "-", "f", "r", "a", "m", "e", "w", "o", "r", "k", " ", "F", "o", "o", " ", "-", "f", "r", "a", "m", "e", "w", "o", "r", "k">>,
     <<"-", "L", "/", "u", "s", "r", " ", "-", "l", "z", " ", "-", "L", "/", "u", "s", "r", "/", " ", "-", "L", "/", "/", "u", "s", "r", "/", "l">>,
     <<"-", "l", "z", " ", "-", "l", "q", " ", "-", "L", "/", "u", "s", "r", "/", "l", " ", "-", "L", "/", "o", "/", " ", "-", "l", "z">>,
     <<"-", "I", "/", "i", " ", "-", "F", "/", "f", " ", "-", "W", "x", " ", "-", "L", "/", "o", " ", "-", "l", "z", " ", "-", "L", "/", "o", " ", "-", "I", "/", "i">>,
     <<"-", "U+00E9", "x", " ", "-", "l", "z">>,
     <<"-", "L", "/", "o", " ", "U+00E9", "a", " ", "-", "l", "U+00E9">>,
     <<"-", "l", "z", " ", "0xFF">>}

Archives ==
    {Components(<<"/", "o", "/", "l", "i", "b", "z", ".", "a">>), Components(<<"/", "u", "s", "r", "/", "l", "/", "l", "i", "b", "z", ".", "a">>),
     Components(<<"/", "u", "s", "r", "x", "/", "l", "i", "b", "z", ".", "a">>)}

FileSystems == (SUBSET Archives) \cup {Archives \cup {Components(<<"/", "u", "s", "r", "/", "l", "i", "b", "z", ".", "a">>)}}

\* The end-to-end scenarios of the documentation: library foo, native build.
LocalOutput == <<"-", "I", "/", "u", "s", "r", "/", "l", "o", "c", "a", "l", "/", "i", "n", "c", "l", "u", "d", "e", " ", "-", "L", "/", "u", "s", "r", "/", "l", "o", "c", "a", "l", "/", "l", "i", "b", " ", "-", "l", "f", "o", "o">>
LocalArchive == Components(<<"/", "u", "s", "r", "/", "l", "o", "c", "a", "l", "/", "l", "i", "b", "/", "l", "i", "b", "f", "o", "o", ".", "a">>)

InitLocals ==
    /\ self = [statik |-> None, atleast_version |-> None]
    /\ pc = "config"
    /\ statik = FALSE
    /\ cmd = NoCmd
    /\ spawned = <<>>
    /\ out = NoOutput
    /\ parts = <<>>
    /\ dirs = <<>>
    /\ ret = EmptyLibrary
    /\ printed = <<>>
    /\ result = NoResult

InitPolicy ==
    /\ env \in PolicyEnvs
    /\ fs = {}
    /\ tool \in PolicyTools
    /\ name \in Names

InitParse ==
    /\ env = NativeEnv
    /\ fs \in FileSystems
    /\ tool \in {Run("ok", 0, so, <<>>) : so \in GeneratedOutputs \cup ScenarioOutputs}
    /\ name = foo

InitScenario ==
    /\ env \in {MakeEnv(F, Some(<<"x", "8", "6">>), Some(<<"x", "8", "6">>)) : F \in {{}, {<<"F", "O", "O", "_", "S", "T", "A", "T", "I", "C">>}}}
    /\ fs \in {{}, {LocalArchive}}
    /\ tool = Run("ok", 0, LocalOutput, <<>>)
    /\ name = foo

Init == InitLocals /\ (InitPolicy \/ InitParse \/ InitScenario)

----------------------------------------------------------------------------
\* Config::statik
Config_statik(b) ==
    /\ pc = "config"
    /\ self' = [self EXCEPT !.statik = Some(b)]
    /\ UNCHANGED <<env, fs, tool, name, pc, statik, cmd, spawned, out, parts,
                   dirs, ret, printed, result>>

\* Config::atleast_version
Config_atleast_version(v) ==
    /\ pc = "config"
    /\ self' = [self EXCEPT !.atleast_version = Some(v)]
    /\ UNCHANGED <<env, fs, tool, name, pc, statik, cmd, spawned, out, parts,
                   dirs, ret, printed, result>>

\* Gate testing cross compilation before the opt-out variable.
Gate_cross_first(n) ==
    IF ~ target_supported THEN ErrCross
    ELSE IF is_some(var_os(NoPkgConfigVar(n))) THEN ErrDisabled(n)
    ELSE NoResult

\* The two early returns of find.
Gate(n) ==
    IF is_some(var_os(NoPkgConfigVar(n))) THEN ErrDisabled(n)
    ELSE IF ~ target_supported THEN ErrCross
    ELSE NoResult

\* find, lines 120-125
FindGate ==
    /\ pc = "config"
    /\ result' = Gate(name)
    /\ pc' = IF Gate(name) = NoResult THEN "command" ELSE "done"
    /\ UNCHANGED <<env, fs, tool, name, self, statik, cmd, spawned, out,
                   parts, dirs, ret, printed>>

\* find, lines 127-137
FindCommand ==
    /\ pc = "command"
    /\ statik' = unwrap_or(self.statik, infer_static(name))
    /\ cmd' = BuildCmd(statik', name, self.atleast_version)
    /\ pc' = "spawn"
    /\ UNCHANGED <<env, fs, tool, name, self, spawned, out, parts, dirs, ret,
                   printed, result>>

\* find, lines 138-140: cmd.output()
FindSpawn ==
    /\ pc = "spawn"
    /\ spawned' = Append(spawned, cmd)
    /\ IF tool.spawn # "ok"
       THEN /\ result' = ErrSpawn(cmd, tool.spawn)
            /\ pc' = "done"
            /\ out' = out
       ELSE /\ out' = [status |-> tool.status, stdout |-> tool.stdout,
                       stderr |-> tool.stderr]
            /\ pc' = "decode"
            /\ result' = result
    /\ UNCHANGED <<env, fs, tool, name, self, statik, cmd, parts, dirs, ret,
                   printed>>

\* find, lines 141-142: both from_utf8(..).unwrap()
FindDecode ==
    /\ pc = "decode"
    /\ pc' = IF from_utf8_ok(out.stdout) /\ from_utf8_ok(out.stderr)
             THEN "status" ELSE "panicked"
    /\ UNCHANGED <<env, fs, tool, name, self, statik, cmd, spawned, out,
                   parts, dirs, ret, printed, result>>

\* find, lines 143-165
FindStatus ==
    /\ pc = "status"
    /\ IF out.status # 0
       THEN /\ result' = ErrStatus(cmd, out.status,
                                   FailureTail(out.stdout, out.stderr))
            /\ pc' = "done"
       ELSE /\ result' = result
            /\ pc' = "parse"
    /\ ret' = EmptyLibrary
    /\ dirs' = <<>>
    /\ UNCHANGED <<env, fs, tool, name, self, statik, cmd, spawned, out,
                   parts, printed>>

\* find, lines 166-168
FindParse ==
    /\ pc = "parse"
    /\ IF ParsePanics(out.stdout)
       THEN /\ pc' = "panicked"
            /\ parts' = parts
       ELSE /\ pc' = "flags"
            /\ parts' = ParseParts(out.stdout)
    /\ UNCHANGED <<env, fs, tool, name, self, statik, cmd, spawned, out,
                   dirs, ret, printed, result>>

\* find, lines 169-180
FindFlags ==
    /\ pc = "flags"
    /\ LET st == FlagLoop(parts, Locals)
       IN  /\ printed' = st.printed
           /\ dirs' = st.dirs
           /\ ret' = st.ret
    /\ pc' = "libs"
    /\ UNCHANGED <<env, fs, tool, name, self, statik, cmd, spawned, out,
                   parts, result>>

\* find, lines 181-190
FindLibs ==
    /\ pc = "libs"
    /\ LET st == LibLoop(parts, Locals)
       IN  /\ printed' = st.printed
           /\ dirs' = st.dirs
           /\ ret' = st.ret
    /\ pc' = "frameworks"
    /\ UNCHANGED <<env, fs, tool, name, self, statik, cmd, spawned, out,
                   parts, result>>

\* find, lines 191-200
FindFrameworks ==
    /\ pc = "frameworks"
    /\ LET st == FrameworkLoop(split(out.stdout, " "), Locals)
       IN  /\ printed' = st.printed
           /\ dirs' = st.dirs
           /\ ret' = st.ret
           /\ result' = Ok(st.ret)
    /\ pc' = "done"
    /\ UNCHANGED <<env, fs, tool, name, self, statik, cmd, spawned, out,
                   parts>>

Next ==
    \/ \E b \in BOOLEAN : Config_statik(b)
    \/ \E v \in Versions : Config_atleast_version(v)
    \/ FindGate
    \/ FindCommand
    \/ FindSpawn
    \/ FindDecode
    \/ FindStatus
    \/ FindParse
    \/ FindFlags
    \/ FindLibs
    \/ FindFrameworks

Spec == Init /\ [][Next]_vars


----------------------------------------------------------------------------
\* Vocabulary of the properties.
Finished == pc = "done"
Succeeded == pc = "done" /\ result.kind = "Ok"
IsSet(k) == k \in DOMAIN env
ValueOf(k) == IF IsSet(k) THEN Some(env[k]) ELSE None
OptedOut == IsSet(envify(name) \o <<"_", "N", "O", "_", "P", "K", "G", "_", "C", "O", "N", "F", "I", "G">>)
CrossBlocked == ValueOf(HOST) # ValueOf(TARGET) /\ ~ IsSet(PKG_CONFIG_ALLOW_CROSS)
Contains(s, x) == \E i \in 1..Len(s) : s[i] = x
Entries(f) == SelectSeq(parts, LAMBDA p : p[1] = f)
ValuesOf(f) == [i \in 1..Len(Entries(f)) |-> Entries(f)[i][2]]
LinesOf(fmts) == SelectSeq(printed, LAMBDA l : l.fmt \in fmts)

\* The link mode rules in their fixed order: variable, mode when it is set.
LinkModeRules ==
    <<<<envify(name) \o <<"_", "S", "T", "A", "T", "I", "C">>, TRUE>>,
      <<envify(name) \o <<"_", "D", "Y", "N", "A", "M", "I", "C">>, FALSE>>,
      <<PKG_CONFIG_ALL_STATIC, TRUE>>,
      <<PKG_CONFIG_ALL_DYNAMIC, FALSE>>>>
FirstMatching ==
    IF \E i \in 1..Len(LinkModeRules) : IsSet(LinkModeRules[i][1])
    THEN LinkModeRules[CHOOSE i \in 1..Len(LinkModeRules) :
                           /\ IsSet(LinkModeRules[i][1])
                           /\ \A j \in 1..(i - 1) : ~ IsSet(LinkModeRules[j][1])][2]
    ELSE FALSE
ExpectedStatic == IF self.statik # None THEN self.statik[1] ELSE FirstMatching

\* C1: the link mode find uses, and whether --static is passed, is the
\* Configuration's explicit statik if set, else the value of the first rule
\* that matches in the order <NAME>_STATIC, <NAME>_DYNAMIC,
\* PKG_CONFIG_ALL_STATIC, PKG_CONFIG_ALL_DYNAMIC, else dynamic.
C1_LinkMode ==
    cmd # NoCmd =>
        /\ statik = ExpectedStatic
        /\ Contains(cmd.args, ArgStatic) <=> ExpectedStatic
        /\ (self.statik = None /\ IsSet(envify(name) \o <<"_", "S", "T", "A", "T", "I", "C">>)) => statik
        /\ self.statik = Some(FALSE) => ~ statik

\* foo is asked for with no override while FOO_STATIC and FOO_DYNAMIC are set.
C1_Witness ==
    /\ spawned # <<>>
    /\ name = foo
    /\ self.statik = None
    /\ IsSet(<<"F", "O", "O", "_", "S", "T", "A", "T", "I", "C">>) /\ IsSet(<<"F", "O", "O", "_", "D", "Y", "N", "A", "M", "I", "C">>)
    /\ statik

\* C2: with <NAME>_NO_PKG_CONFIG present find returns the disabled error
\* naming the library whatever HOST, TARGET and PKG_CONFIG_ALLOW_CROSS are;
\* otherwise with HOST different from TARGET and no PKG_CONFIG_ALLOW_CROSS it
\* returns the cross-compilation error; the tool is spawned in neither case.
C2_Gates ==
    /\ OptedOut =>
          /\ spawned = <<>>
          /\ pc \in {"config", "done"}
          /\ Finished => result = ErrDisabled(name)
    /\ (~ OptedOut /\ CrossBlocked) =>
          /\ spawned = <<>>
          /\ pc \in {"config", "done"}
          /\ Finished => result = ErrCross
    /\ spawned # <<>> => (~ OptedOut /\ ~ CrossBlocked)

\* find has returned for an opted-out library in a cross build.
C2_Witness ==
    /\ Finished
    /\ OptedOut
    /\ CrossBlocked
    /\ result.err = "disabled"

\* The scenario of C3: no overrides, library foo, host equal to target,
\* FOO_STATIC set, exit status 0 with the documented output, and
\* /usr/local/lib/libfoo.a present.
LocalStaticScenario ==
    /\ name = foo
    /\ self = [statik |-> None, atleast_version |-> None]
    /\ ValueOf(HOST) = ValueOf(TARGET)
    /\ IsSet(<<"F", "O", "O", "_", "S", "T", "A", "T", "I", "C">>)
    /\ ~ IsSet(<<"F", "O", "O", "_", "N", "O", "_", "P", "K", "G", "_", "C", "O", "N", "F", "I", "G">>)
    /\ tool = Run("ok", 0, LocalOutput, <<>>)
    /\ LocalArchive \in fs

\* C3 as stated: in the scenario the line emitted for foo is the static one.
C3_Original ==
    (LocalStaticScenario /\ Finished) =>
        /\ Contains(printed, LinkStatic(foo))
        /\ ~ Contains(printed, LinkDynamic(foo))

\* C3 amended: in the scenario the line emitted for foo is the dynamic one,
\* because /usr/local/lib lies under /usr.
C3_LocalScenarioDynamic ==
    (LocalStaticScenario /\ Finished) =>
        /\ result.kind = "Ok"
        /\ printed = <<SearchNative(<<"/", "u", "s", "r", "/", "l", "o", "c", "a", "l", "/", "l", "i", "b">>), LinkDynamic(foo)>>

\* The scenario has run to the end with --static passed.
C3_Witness ==
    /\ LocalStaticScenario
    /\ Finished
    /\ Contains(cmd.args, ArgStatic)
    /\ result.lib.libs = <<foo>>

\* A directory that is /usr or a descendant of /usr.
UsrOrBelow(d) ==
    LET c == Components(d)
    IN  c.has_root /\ c.names # <<>> /\ c.names[1] = <<"u", "s", "r">>

\* lib<n>.a exists in a directory of some -L entry outside /usr.
ArchiveOutsideUsr(n) ==
    \E i \in 1..Len(Entries(<<"-", "L">>)) :
        LET d == Entries(<<"-", "L">>)[i][2]
        IN  /\ ~ UsrOrBelow(d)
            /\ Components(d \o <<"/", "l", "i", "b">> \o n \o <<".", "a">>) \in fs

\* C4: in a successful resolution every -l entry produces exactly one link
\* line, in the order of the -l entries, and the line is the static one iff
\* the link mode is static and lib<name>.a exists in the directory of some
\* -L entry, before or after it, that is neither /usr nor below /usr.
C4_LinkLines ==
    Succeeded =>
        LinesOf({LinkStatic(<<>>).fmt, LinkDynamic(<<>>).fmt})
          = [i \in 1..Len(Entries(<<"-", "l">>)) |->
                IF statik /\ ArchiveOutsideUsr(Entries(<<"-", "l">>)[i][2])
                THEN LinkStatic(Entries(<<"-", "l">>)[i][2])
                ELSE LinkDynamic(Entries(<<"-", "l">>)[i][2])]

\* A static line for a -l entry that precedes the -L entry justifying it,
\* next to a dynamic line in the same static-mode resolution.
C4_Witness ==
    /\ Succeeded
    /\ statik
    /\ \E i \in 1..Len(parts) : \E j \in (i + 1)..Len(parts) :
          /\ parts[i][1] = <<"-", "l">>
          /\ parts[j][1] = <<"-", "L">>
          /\ Contains(printed, LinkStatic(parts[i][2]))
          /\ \A k \in 1..(j - 1) : parts[k][1] = <<"-", "L">> => UsrOrBelow(parts[k][2])
    /\ \E i \in 1..Len(printed) : printed[i].fmt = LinkDynamic(<<>>).fmt

\* The parse as C5 words it: split at every space, drop the tokens of at
\* most two characters, pair the first two characters with the rest.
ClaimedParse(text) ==
    LET toks == SelectSeq(split(text, " "), LAMBDA t : Len(t) > 2)
    IN  [i \in 1..Len(toks) |->
            <<SubSeq(toks[i], 1, 2), SubSeq(toks[i], 3, Len(toks[i]))>>]

\* The parser has been run on the decoded output.
ParserRan ==
    \/ pc \in {"flags", "libs", "frameworks"}
    \/ Succeeded
    \/ pc = "panicked" /\ from_utf8_ok(out.stdout) /\ from_utf8_ok(out.stderr)

\* C5: for every output text the parser yields exactly the pairs (first two
\* characters, rest) of the space-separated tokens longer than two, in order.
C5_Parse ==
    ParserRan => (pc # "panicked" /\ parts = ClaimedParse(out.stdout))

\* C6: no output content makes a resolution abort: a run that exited with
\* status 0 ends with a result, one that exited non-zero with the tool
\* failure error.
C6_NeverAborts ==
    /\ pc # "panicked"
    /\ (Finished /\ spawned # <<>> /\ tool.spawn = "ok") =>
          IF tool.status = 0 THEN result.kind = "Ok" ELSE result.err = "status"

\* Positions of stdout.split(' ') where an occurrence "-framework <name>"
\* starts, occurrences taken from left to right without overlap: within a run
\* of consecutive "-framework" tokens the first, third, ... start one.
FirstOfRun(t, i) ==
    CHOOSE j \in 1..i :
        /\ \A k \in j..i : t[k] = <<"-", "f", "r", "a", "m", "e", "w", "o", "r", "k">>
        /\ (j = 1 \/ t[j - 1] # <<"-", "f", "r", "a", "m", "e", "w", "o", "r", "k">>)
StartsOccurrence(t, i) ==
    /\ t[i] = <<"-", "f", "r", "a", "m", "e", "w", "o", "r", "k">>
    /\ i < Len(t)
    /\ (i - FirstOfRun(t, i)) % 2 = 0
OccurrenceNames(t) ==
    LET at == SelectSeq([i \in 1..Len(t) |-> i], LAMBDA i : StartsOccurrence(t, i))
    IN  [k \in 1..Len(at) |-> t[at[k] + 1]]

\* C7: in a successful resolution the frameworks list is exactly the names
\* of the occurrences of "-framework <name>" in the token stream, in order,
\* one link-framework line is emitted per occurrence, and a trailing
\* "-framework" contributes nothing.
C7_Frameworks ==
    Succeeded =>
        LET names == OccurrenceNames(split(out.stdout, " "))
        IN  /\ result.lib.frameworks = names
            /\ LinesOf({LinkFramework(<<>>).fmt})
                 = [k \in 1..Len(names) |-> LinkFramework(names[k])]

\* Two frameworks were found in order.
C7_Witness ==
    /\ Succeeded
    /\ result.lib.frameworks = <<<<"F", "o", "o">>, <<"B", "a", "r">>>>
    /\ LinesOf({LinkFramework(<<>>).fmt}) = <<LinkFramework(<<"F", "o", "o">>), LinkFramework(<<"B", "a", "r">>)>>

\* C8: in a successful resolution link_paths, framework_paths, include_paths
\* and libs are the values of the -L, -F, -I and -l entries in order with
\* repeats; one search line is emitted per -L and per -F entry in that order;
\* -I entries and entries with any other prefix emit nothing.
C8_Projection ==
    Succeeded =>
        /\ result.lib.link_paths = ValuesOf(<<"-", "L">>)
        /\ result.lib.framework_paths = ValuesOf(<<"-", "F">>)
        /\ result.lib.include_paths = ValuesOf(<<"-", "I">>)
        /\ result.lib.libs = ValuesOf(<<"-", "l">>)
        /\ LinesOf({SearchNative(<<>>).fmt, SearchFramework(<<>>).fmt})
             = LET e == SelectSeq(parts, LAMBDA p : p[1] \in {<<"-", "L">>, <<"-", "F">>})
               IN  [i \in 1..Len(e) |->
                      IF e[i][1] = <<"-", "L">> THEN SearchNative(e[i][2])
                      ELSE SearchFramework(e[i][2])]
        /\ Len(printed) = Len(Entries(<<"-", "L">>)) + Len(Entries(<<"-", "F">>))
                          + Len(Entries(<<"-", "l">>)) + Len(result.lib.frameworks)

\* A result built from repeated -L and -I entries, a -F entry and an entry
\* with an unknown prefix.
C8_Witness ==
    /\ Succeeded
    /\ result.lib.link_paths = <<<<"/", "o">>, <<"/", "o">>>>
    /\ result.lib.include_paths = <<<<"/", "i">>, <<"/", "i">>>>
    /\ result.lib.framework_paths = <<<<"/", "f">>>>
    /\ Contains(parts, <<<<"-", "W">>, <<"x">>>>)

\* The command line C9 describes.
ExpectedArgs ==
    (IF ExpectedStatic THEN <<<<"-", "-", "s", "t", "a", "t", "i", "c">>>> ELSE <<>>)
    \o <<<<"-", "-", "l", "i", "b", "s">>, <<"-", "-", "c", "f", "l", "a", "g", "s">>>>
    \o <<(IF self.atleast_version = None THEN name
          ELSE name \o <<" ", ">", "=", " ">> \o self.atleast_version[1])>>

\* C9: a resolution that passes both gates invokes the tool exactly once and
\* none invokes it more than once, with the arguments [--static] --libs
\* --cflags <query> and PKG_CONFIG_ALLOW_SYSTEM_LIBS=1 in its environment.
C9_OneInvocation ==
    /\ Len(spawned) <= 1
    /\ (pc \in {"done", "panicked"} /\ ~ OptedOut /\ ~ CrossBlocked) =>
          Len(spawned) = 1
    /\ \A i \in 1..Len(spawned) :
          /\ spawned[i].program = "pkg-config"
          /\ spawned[i].args = ExpectedArgs
          /\ <<PKG_CONFIG_ALLOW_SYSTEM_LIBS, <<"1">>>> \in spawned[i].envs

\* A static query with a minimum version has been run.
C9_Witness ==
    /\ Finished
    /\ Len(spawned) = 1
    /\ self.atleast_version = Some(<<"1", ".", "0">>)
    /\ spawned[1].args = <<<<"-", "-", "s", "t", "a", "t", "i", "c">>, <<"-", "-", "l", "i", "b", "s">>, <<"-", "-", "c", "f", "l", "a", "g", "s">>, <<"f", "o", "o", " ", ">", "=", " ", "1", ".", "0">>>>

\* C10: a resolution ends with a complete result or with one of the four
\* errors; one that ends with an error has emitted no line; lines are emitted
\* only after exit status 0; after a non-zero exit the error carries the
\* non-empty ones of stdout and stderr verbatim.
C10_NoPartialSuccess ==
    /\ pc \in {"done", "panicked"} =>
          \/ result.kind = "Ok"
          \/ result.kind = "Err"
               /\ result.err \in {"disabled", "cross", "spawn", "status"}
    /\ result.kind # "Ok" /\ pc \notin {"flags", "libs", "frameworks"} =>
          printed = <<>>
    /\ printed # <<>> => (spawned # <<>> /\ tool.spawn = "ok" /\ tool.status = 0)
    /\ (pc \in {"done", "panicked"} /\ spawned # <<>> /\ tool.spawn = "ok"
          /\ tool.status # 0) =>
          /\ result.err = "status"
          /\ result.tail =
               (IF tool.stdout # <<>> THEN StdoutHeader \o tool.stdout ELSE <<>>)
               \o (IF tool.stderr # <<>> THEN StderrHeader \o tool.stderr ELSE <<>>)

====
